---------------------------- MODULE Spec2Model ----------------------------
(***************************************************************************)
(* Model of clickup-api-setup-script.py: main() builds a ClickUpSetup and  *)
(* run_setup() creates, by one POST each, a space, a folder, three lists   *)
(* and the custom fields of each list, then exports the recorded ids.      *)
(* The remote API is the environment: it answers every call with a status  *)
(* and a JSON body and assigns the identifiers.                            *)
(***************************************************************************)
EXTENDS Integers, Sequences, FiniteSets, TLC

VARIABLES
  API_TOKEN,    \* main: the token written in the script
  pc,           \* position of the process in main / run_setup
  constructed,  \* a ClickUpSetup object exists in this process
  config,       \* self.config
  space_id,     \* run_setup local
  folder_id,    \* run_setup local
  li,           \* create_lists: index of the loop over lists_config
  fk,           \* create_custom_fields: index of the loop over field_sets
  fi,           \* create_custom_fields: index of the loop over fields
  nextId,       \* remote: the last identifier number assigned
  failures,     \* remote: number of calls not answered by a full 2xx body
  run,          \* number of the current execution of the script
  prev,         \* space, folder and list ids the previous execution recorded
  posts,        \* HTTP POST calls issued in this execution
  failed,       \* some make_request of this execution returned no result
  last,         \* the last creation request of this execution
  noid,         \* some 2xx answer of this execution carried no identifier
  exports,      \* executions of export_configuration in this execution
  files         \* the two output files as written by this execution

vars == << API_TOKEN, pc, constructed, config, space_id, folder_id, li, fk, fi,
           nextId, failures, run, prev, posts, failed, last, noid, exports, files >>

\* Bounds of the model
MaxRuns == 2
MaxFailures == 1

\* ---------------------------------------------------------------- data
None == "None"
PLACEHOLDER_TOKEN == "YOUR_CLICKUP_API_TOKEN_HERE"
TEAM_ID == "9013484736"
EmptyDict == [k \in {} |-> None]

lists_config ==
  << [name |-> "Service Issues", key |-> "service_issues"],
     [name |-> "Customer Inquiries", key |-> "customer_inquiries"],
     [name |-> "Unit Management", key |-> "unit_management"] >>

universal_fields ==
  << [name |-> "Slack Ticket ID", type |-> "short_text", required |-> TRUE,
       options |-> <<  >>],
     [name |-> "Slack Permalink", type |-> "url", required |-> TRUE,
       options |-> <<  >>],
     [name |-> "Submitted By", type |-> "short_text", required |-> TRUE,
       options |-> <<  >>],
     [name |-> "Property Address", type |-> "short_text", required |-> TRUE,
       options |-> <<  >>],
     [name |-> "Client Name", type |-> "short_text", required |-> TRUE,
       options |-> <<  >>],
     [name |-> "Market Code", type |-> "drop_down", required |-> TRUE,
       options |-> << "ANA", "ATX", "CHS", "CLT", "DEN", "DFW", "FLL", "GEG", "HOT", "JAX", "LAX", "LIT", "PHX", "PIE", "SAN", "SAT", "SDX", "SEA", "SLC", "SRQ", "STA", "STS", "VPS", "MISC" >>],
     [name |-> "Date Created", type |-> "date", required |-> TRUE,
       options |-> <<  >>],
     [name |-> "Source Method", type |-> "drop_down", required |-> TRUE,
       options |-> << "OpenPhone Text", "Phone Call", "Email", "Slack Message", "Website Form", "In-Person", "Internal Discovery" >>],
     [name |-> "Source Reference", type |-> "short_text", required |-> FALSE,
       options |-> <<  >>] >>

service_issue_fields ==
  << [name |-> "Issue Type", type |-> "drop_down", required |-> TRUE,
       options |-> << "Bin Placement Issue", "Property Access Problem", "Schedule Conflict", "Property Logistics Issue", "Service Quality Issue", "Customer Complaint", "Equipment Issue", "Other Issue" >>],
     [name |-> "Priority Level", type |-> "drop_down", required |-> TRUE,
       options |-> << "URGENT - Immediate Response", "HIGH - Same Day Resolution", "NORMAL - Next Business Day", "LOW - When Available" >>],
     [name |-> "Issue Description", type |-> "long_text", required |-> TRUE,
       options |-> <<  >>],
     [name |-> "Resolution Status", type |-> "drop_down", required |-> FALSE,
       options |-> << "Open", "In Progress", "Resolved", "Closed" >>],
     [name |-> "Assigned Operator", type |-> "short_text", required |-> FALSE,
       options |-> <<  >>],
     [name |-> "Resolution Notes", type |-> "long_text", required |-> FALSE,
       options |-> <<  >>] >>

customer_inquiry_fields ==
  << [name |-> "Inquiry Type", type |-> "drop_down", required |-> TRUE,
       options |-> << "Schedule Question", "Service Status Check", "Billing Question", "Service Details", "New Service Interest", "Pause/Resume Service", "Property Information Update", "General Information", "Other Question" >>],
     [name |-> "Response Priority", type |-> "drop_down", required |-> TRUE,
       options |-> << "URGENT - Customer Waiting", "HIGH - Same Day", "NORMAL - Next Day", "LOW - When Available" >>],
     [name |-> "Customer Question", type |-> "long_text", required |-> TRUE,
       options |-> <<  >>],
     [name |-> "Response Status", type |-> "drop_down", required |-> FALSE,
       options |-> << "Pending", "In Progress", "Responded", "Closed" >>],
     [name |-> "Assigned CX Rep", type |-> "short_text", required |-> FALSE,
       options |-> <<  >>],
     [name |-> "Response Notes", type |-> "long_text", required |-> FALSE,
       options |-> <<  >>],
     [name |-> "Follow-up Required", type |-> "checkbox", required |-> FALSE,
       options |-> <<  >>] >>

unit_management_fields ==
  << [name |-> "Change Type", type |-> "drop_down", required |-> TRUE,
       options |-> << "NEW UNIT", "CANCELLATION", "PAUSE SERVICE", "RESTART SERVICE", "MODIFY SERVICE" >>],
     [name |-> "Trash Pickup Day", type |-> "drop_down", required |-> FALSE,
       options |-> << "Monday", "Tuesday", "Wednesday", "Thursday", "Friday", "Saturday", "Sunday" >>],
     [name |-> "Recycling Day", type |-> "drop_down", required |-> FALSE,
       options |-> << "Same as Trash", "Monday", "Tuesday", "Wednesday", "Thursday", "Friday", "Saturday", "Sunday", "No Recycling" >>],
     [name |-> "Effective Date", type |-> "date", required |-> TRUE,
       options |-> <<  >>],
     [name |-> "Reason for Change", type |-> "long_text", required |-> TRUE,
       options |-> <<  >>],
     [name |-> "Special Instructions", type |-> "long_text", required |-> FALSE,
       options |-> <<  >>],
     [name |-> "Processing Status", type |-> "drop_down", required |-> FALSE,
       options |-> << "Pending", "In Progress", "Completed", "On Hold" >>],
     [name |-> "Assigned BPO Rep", type |-> "short_text", required |-> FALSE,
       options |-> <<  >>],
     [name |-> "Implementation Notes", type |-> "long_text", required |-> FALSE,
       options |-> <<  >>] >>
field_set_keys == << "service_issues", "customer_inquiries", "unit_management" >>

field_sets ==
  [list_key \in {"service_issues", "customer_inquiries", "unit_management"} |->
     CASE list_key = "service_issues" -> universal_fields \o service_issue_fields
       [] list_key = "customer_inquiries" -> universal_fields \o customer_inquiry_fields
       [] list_key = "unit_management" -> universal_fields \o unit_management_fields]

\* Number of resources one execution creates at most
NumResources ==
  2 + Len(lists_config) + Len(field_sets["service_issues"])
    + Len(field_sets["customer_inquiries"]) + Len(field_sets["unit_management"])

\* ---------------------------------------------------------------- remote
IdOf == [n \in 1..(MaxRuns * NumResources + 1) |-> "id" \o ToString(n)]
OptionIdOf(id, i) == id \o "-opt" \o ToString(i)

\* The 2xx body the remote returns for a created resource.
CreatedBody(kind, data, id, cf) ==
  CASE kind = "space" ->
         [id |-> id, name |-> data.name,
          features |-> [custom_fields |-> [enabled |-> cf]]]
    [] kind \in {"folder", "list"} -> [id |-> id, name |-> data.name]
    [] kind = "field" ->
         [id |-> id, name |-> data.name, type |-> data.type,
          required |-> data.required,
          type_config |->
            [options |-> [i \in DOMAIN data.options |->
                            [id |-> OptionIdOf(id, i), name |-> data.options[i]]]]]

\* Answers of the remote to one call: a status and a JSON body. A 2xx body
\* is the created resource (with a non-empty id), the empty object, or an
\* object without an id; 429 and 500 stand for the retryable and the other
\* non-2xx statuses. At most MaxFailures calls are not answered in full.
Answers(kind, data, id, cf) ==
  { [status |-> 200, json |-> CreatedBody(kind, data, id, cf)] }
  \cup (IF failures < MaxFailures
        THEN { [status |-> 200, json |-> EmptyDict],
               [status |-> 200, json |-> [name |-> data.name]],
               [status |-> 429, json |-> [err |-> "Rate limit reached"]],
               [status |-> 500, json |-> [err |-> "Internal error"]] }
        ELSE {})

IsFull(a) == a.status = 200 /\ "id" \in DOMAIN a.json

\* ---------------------------------------------------------------- client
\* Variant: the identifiers of the previous execution are kept
NewConfigKept ==
  IF run > 1
  THEN [workspace_id |-> TEAM_ID, space_id |-> prev.space_id,
        folder_id |-> prev.folder_id, lists |-> prev.lists,
        custom_fields |-> EmptyDict, statuses |-> EmptyDict]
  ELSE [workspace_id |-> TEAM_ID, space_id |-> None, folder_id |-> None,
        lists |-> EmptyDict, custom_fields |-> EmptyDict, statuses |-> EmptyDict]

\* __init__: the configuration a new ClickUpSetup starts with
NewConfig ==
  [workspace_id |-> TEAM_ID, space_id |-> None, folder_id |-> None,
   lists |-> EmptyDict, custom_fields |-> EmptyDict, statuses |-> EmptyDict]

\* Variant: a dry run, the body is made up locally and no call is issued
make_request_dryrun(first, again) ==
  [none |-> FALSE, json |-> first.json, calls |-> 0, status |-> 200]

\* Variant: a call answered 429 is repeated, three calls at most
make_request_retry(first, again) ==
  IF first.status >= 200 /\ first.status < 300
  THEN [none |-> FALSE, json |-> first.json, calls |-> 1, status |-> first.status]
  ELSE IF first.status # 429
  THEN [none |-> TRUE, json |-> EmptyDict, calls |-> 1, status |-> first.status]
  ELSE IF again.status >= 200 /\ again.status < 300
  THEN [none |-> FALSE, json |-> again.json, calls |-> 2, status |-> again.status]
  ELSE [none |-> TRUE, json |-> EmptyDict,
        calls |-> IF again.status = 429 THEN 3 ELSE 2, status |-> again.status]

\* make_request: one HTTP call; raise_for_status turns a non-2xx status
\* into a RequestException, which is caught and None is returned.
\* `first` answers the call, `again` is what a repeated call would get.
make_request(first, again) ==
  IF first.status >= 200 /\ first.status < 300
  THEN [none |-> FALSE, json |-> first.json, calls |-> 1, status |-> first.status]
  ELSE [none |-> TRUE, json |-> EmptyDict, calls |-> 1, status |-> first.status]

\* Variant: the token is never taken to be missing
TokenMissingNever(token) == FALSE

\* main: the test of the token against the placeholder
TokenMissing(token) == token = PLACEHOLDER_TOKEN

\* Variant: a space without the custom-field capability counts as no space
NotOrDisabled(id) == id = None \/ id = "" \/ last'.cf_disabled

\* Variant: the returned identifier is not tested
NotNever(id) == FALSE

\* run_setup: `not space_id`, `not folder_id`
Not(id) == id = None \/ id = ""

\* Variant: create_lists reports success when two lists were recorded
ListsCompleteTwo(lists) == Cardinality(DOMAIN lists) >= 2

\* Variant: create_lists reports success whatever was recorded
ListsCompleteAlways(lists) == TRUE

\* create_lists: the return value
ListsComplete(lists) == Cardinality(DOMAIN lists) = 3

\* Variant: the options the remote returned are recorded with the entry
FieldEntryWithOptions(json) ==
  [id |-> json.id, type |-> json.type,
   required |-> IF "required" \in DOMAIN json THEN json.required ELSE FALSE,
   options |-> [l \in { json.type_config.options[i].name :
                          i \in DOMAIN json.type_config.options } |->
                  (CHOOSE o \in { json.type_config.options[i] :
                                    i \in DOMAIN json.type_config.options } :
                     o.name = l).id]]

\* create_custom_fields: the entry recorded for a created field
FieldEntry(json) ==
  [id |-> json.id, type |-> json.type,
   required |-> IF "required" \in DOMAIN json THEN json.required ELSE FALSE]

\* Variant: the list is recorded under the name the remote returned
RecordListByName(lists, list_config, json) ==
  (json.name :> [id |-> json.id, name |-> json.name]) @@ lists

\* create_lists: the entry recorded for a created list
RecordList(lists, list_config, json) ==
  (list_config.key :> [id |-> json.id, name |-> json.name]) @@ lists

\* The space, folder and list identifiers of a configuration
TopLevel(c) == [space_id |-> c.space_id, folder_id |-> c.folder_id, lists |-> c.lists]

\* What an execution has written before export_configuration ran
NoFiles == [written |-> FALSE, config_json |-> EmptyDict, env_vars |-> EmptyDict]

\* Python truth value of a make_request result: None and {} are false
Truthy(result) == ~result.none /\ DOMAIN result.json # {}

NoRequest ==
  [kind |-> "none", key |-> None, name |-> None, parent |-> None,
   status |-> 0, calls |-> 0, truthy |-> FALSE, keyerror |-> FALSE,
   has_id |-> FALSE, cf_disabled |-> FALSE]

\* A creation request and what came back: `keys` are the keys the caller
\* reads from the body; cf_disabled tells, for a space, that the body reports
\* the custom-field capability as not enabled and, for a folder, that it is
\* created in such a space.
Request(kind, key, name, parent, result, keys) ==
  [kind |-> kind, key |-> key, name |-> name, parent |-> parent,
   status |-> result.status, calls |-> result.calls,
   truthy |-> Truthy(result),
   keyerror |-> Truthy(result) /\ ~(keys \subseteq DOMAIN result.json),
   has_id |-> ~result.none /\ "id" \in DOMAIN result.json,
   cf_disabled |->
     CASE kind = "space" -> /\ ~result.none
                            /\ "features" \in DOMAIN result.json
                            /\ ~result.json.features.custom_fields.enabled
       [] kind = "folder" -> last.kind = "space" /\ last.cf_disabled
       [] OTHER -> FALSE]

\* Bookkeeping of one creation request and of the remote's side of it
Issue(req, result, first) ==
  /\ last' = req
  /\ posts' = posts + result.calls
  /\ failed' = (failed \/ result.none)
  /\ noid' = (noid \/ (~result.none /\ "id" \notin DOMAIN result.json))
  /\ nextId' = IF IsFull(first) THEN nextId + 1 ELSE nextId
  /\ failures' = IF IsFull(first) THEN failures ELSE failures + 1

Terminal == {"done_true", "done_false", "no_token", "crashed"}

\* ---------------------------------------------------------------- actions
Init ==
  /\ run = 1
  /\ API_TOKEN \in {PLACEHOLDER_TOKEN, "pk_live_token"}
  /\ pc = "main"
  /\ constructed = FALSE
  /\ config = NewConfig
  /\ space_id = None
  /\ folder_id = None
  /\ li = 0 /\ fk = 0 /\ fi = 0
  /\ nextId = 0
  /\ failures = 0
  /\ prev = TopLevel(config)
  /\ posts = 0
  /\ failed = FALSE
  /\ last = NoRequest
  /\ noid = FALSE
  /\ exports = 0
  /\ files = NoFiles

\* main: the token is still the placeholder, main returns
MainNoToken ==
  /\ pc = "main"
  /\ TokenMissing(API_TOKEN)
  /\ pc' = "no_token"
  /\ UNCHANGED << API_TOKEN, constructed, config, space_id, folder_id, li, fk, fi,
                  nextId, failures, run, prev, posts, failed,
                  last, noid, exports, files >>

\* main: ClickUpSetup(API_TOKEN, TEAM_ID) and the call of run_setup
MainStart ==
  /\ pc = "main"
  /\ ~TokenMissing(API_TOKEN)
  /\ constructed' = TRUE
  /\ config' = NewConfig
  /\ pc' = "create_space"
  /\ UNCHANGED << API_TOKEN, space_id, folder_id, li, fk, fi, nextId, failures,
                  run, prev, posts, failed, last, noid, exports, files >>

\* run_setup: create_space and the test of its return value
create_space ==
  /\ pc = "create_space"
  /\ \E cf \in BOOLEAN :
       LET data == [name |-> "Fido Operations"]
           A == Answers("space", data, IdOf[nextId + 1], cf)
       IN \E first \in A, again \in A :
            LET result == make_request(first, again)
                req == Request("space", None, data.name, TEAM_ID, result, {"id", "name"})
            IN /\ Issue(req, result, first)
               /\ IF req.keyerror
                  THEN /\ pc' = "crashed"
                       /\ UNCHANGED << config, space_id >>
                  ELSE LET ret == IF Truthy(result) THEN result.json.id ELSE None
                       IN /\ config' = IF Truthy(result)
                                       THEN [config EXCEPT !.space_id = ret]
                                       ELSE config
                          /\ space_id' = ret
                          /\ pc' = IF Not(ret) THEN "done_false"
                                   ELSE "create_folder"
  /\ UNCHANGED << API_TOKEN, constructed, folder_id, li, fk, fi, run, prev,
                  exports, files >>

\* run_setup: create_folder(space_id) and the test of its return value
create_folder ==
  /\ pc = "create_folder"
  /\ LET data == [name |-> "CX Tickets"]
         A == Answers("folder", data, IdOf[nextId + 1], TRUE)
     IN \E first \in A, again \in A :
          LET result == make_request(first, again)
              req == Request("folder", None, data.name, space_id, result, {"id", "name"})
          IN /\ Issue(req, result, first)
             /\ IF req.keyerror
                THEN /\ pc' = "crashed"
                     /\ UNCHANGED << config, folder_id, li >>
                ELSE LET ret == IF Truthy(result) THEN result.json.id ELSE None
                     IN /\ config' = IF Truthy(result)
                                     THEN [config EXCEPT !.folder_id = ret]
                                     ELSE config
                        /\ folder_id' = ret
                        /\ pc' = IF Not(ret) THEN "done_false" ELSE "create_lists"
                        /\ li' = IF Not(ret) THEN li ELSE 1
  /\ UNCHANGED << API_TOKEN, constructed, space_id, fk, fi, run, prev,
                  exports, files >>

\* Variant: the outer loop does not advance past a field set
NextFieldSetStuck(k, lists) == IF k > 1 THEN k - 1 ELSE k

\* create_custom_fields: the next field set at or after position k whose
\* list is recorded (the `continue` of the outer loop skips the others)
NextFieldSet(k, lists) ==
  LET ks == { j \in k..Len(field_set_keys) : field_set_keys[j] \in DOMAIN lists }
  IN IF ks = {} THEN Len(field_set_keys) + 1
     ELSE CHOOSE j \in ks : \A i \in ks : j <= i

\* create_lists: one iteration of the loop over lists_config and, after the
\* last one, the return value and run_setup's test of it
create_lists ==
  /\ pc = "create_lists"
  /\ LET list_config == lists_config[li]
         A == Answers("list", list_config, IdOf[nextId + 1], TRUE)
     IN \E first \in A, again \in A :
          LET result == make_request(first, again)
              req == Request("list", list_config.key, list_config.name, folder_id,
                             result, {"id", "name"})
              lists1 == IF Truthy(result) /\ ~req.keyerror
                        THEN RecordList(config.lists, list_config, result.json)
                        ELSE config.lists
          IN /\ Issue(req, result, first)
             /\ config' = [config EXCEPT !.lists = lists1]
             /\ IF req.keyerror
                THEN /\ pc' = "crashed"
                     /\ UNCHANGED << li, fk, fi >>
                ELSE IF li < Len(lists_config)
                THEN /\ li' = li + 1
                     /\ UNCHANGED << pc, fk, fi >>
                ELSE IF ~ListsComplete(lists1)
                THEN /\ pc' = "done_false"
                     /\ UNCHANGED << li, fk, fi >>
                ELSE /\ fk' = NextFieldSet(1, lists1)
                     /\ fi' = 1
                     /\ pc' = IF fk' > Len(field_set_keys)
                              THEN "export_configuration"
                              ELSE "create_custom_fields"
                     /\ UNCHANGED li
  /\ UNCHANGED << API_TOKEN, constructed, space_id, folder_id, run,
                  prev, exports, files >>

\* create_custom_fields: one iteration of the loop over the fields of a list
\* (the first one also resets the list's entry of config["custom_fields"])
create_custom_fields ==
  /\ pc = "create_custom_fields"
  /\ LET list_key == field_set_keys[fk]
         fields == field_sets[list_key]
         field == fields[fi]
         list_id == config.lists[list_key].id
         cf0 == IF fi = 1 THEN (list_key :> EmptyDict) @@ config.custom_fields
                ELSE config.custom_fields
         A == Answers("field", field, IdOf[nextId + 1], TRUE)
     IN \E first \in A, again \in A :
          LET result == make_request(first, again)
              req == Request("field", list_key, field.name, list_id, result,
                             {"id", "type"})
              entry == FieldEntry(result.json)
              cf1 == IF Truthy(result) /\ ~req.keyerror
                     THEN (list_key :> ((field.name :> entry) @@ cf0[list_key])) @@ cf0
                     ELSE cf0
          IN /\ Issue(req, result, first)
             /\ config' = [config EXCEPT !.custom_fields = cf1]
             /\ IF req.keyerror
                THEN /\ pc' = "crashed"
                     /\ UNCHANGED << fk, fi >>
                ELSE IF fi < Len(fields)
                THEN /\ fi' = fi + 1
                     /\ UNCHANGED << pc, fk >>
                ELSE /\ fk' = NextFieldSet(fk + 1, config.lists)
                     /\ fi' = 1
                     /\ pc' = IF fk' > Len(field_set_keys)
                              THEN "export_configuration"
                              ELSE "create_custom_fields"
  /\ UNCHANGED << API_TOKEN, constructed, space_id, folder_id, li, run,
                  prev, exports, files >>

\* dict.get(key, default)
Get(d, key, default) == IF key \in DOMAIN d THEN d[key] ELSE default

\* export_configuration: the identifier lines of the env-vars file
EnvVars(c) ==
  [CLICKUP_TEAM_ID |-> TEAM_ID,
   CLICKUP_SPACE_ID |-> Get(c, "space_id", "SPACE_ID_HERE"),
   CLICKUP_FOLDER_ID |-> Get(c, "folder_id", "FOLDER_ID_HERE"),
   CLICKUP_LIST_ID_ISSUES |->
     Get(Get(c.lists, "service_issues", EmptyDict), "id", "LIST_ID_HERE"),
   CLICKUP_LIST_ID_INQUIRIES |->
     Get(Get(c.lists, "customer_inquiries", EmptyDict), "id", "LIST_ID_HERE"),
   CLICKUP_LIST_ID_UNITS |->
     Get(Get(c.lists, "unit_management", EmptyDict), "id", "LIST_ID_HERE")]

\* run_setup: export_configuration, then return True
export_configuration ==
  /\ pc = "export_configuration"
  /\ files' = [written |-> TRUE, config_json |-> config, env_vars |-> EnvVars(config)]
  /\ exports' = exports + 1
  /\ pc' = "done_true"
  /\ UNCHANGED << API_TOKEN, constructed, config, space_id, folder_id, li, fk, fi,
                  nextId, failures, run, prev, posts, failed, last,
                  noid >>

\* The script is executed again, as a new process, against the same remote.
\* Identifiers are opaque to the script; the remote never reuses one, and its
\* counter moves on to the next block of NumResources numbers between
\* executions.
RunAgain ==
  /\ pc \in Terminal
  /\ run < MaxRuns
  /\ run' = run + 1
  /\ prev' = TopLevel(config)
  /\ files' = NoFiles
  /\ nextId' = run * NumResources
  /\ pc' = "main"
  /\ constructed' = FALSE
  /\ config' = NewConfig
  /\ space_id' = None /\ folder_id' = None
  /\ li' = 0 /\ fk' = 0 /\ fi' = 0
  /\ posts' = 0 /\ failed' = FALSE /\ last' = NoRequest /\ noid' = FALSE
  /\ exports' = 0
  /\ UNCHANGED << API_TOKEN, failures >>

Next ==
  \/ MainNoToken
  \/ MainStart
  \/ create_space
  \/ create_folder
  \/ create_lists
  \/ create_custom_fields
  \/ export_configuration
  \/ RunAgain

Spec == Init /\ [][Next]_vars

\* The process runs on: every step of main and run_setup that can be taken
\* is taken (each HTTP call returns). Whether the script is started again is
\* left open.
FairSpec ==
  /\ Spec
  /\ WF_vars(MainNoToken) /\ WF_vars(MainStart)
  /\ WF_vars(create_space) /\ WF_vars(create_folder)
  /\ WF_vars(create_lists) /\ WF_vars(create_custom_fields)
  /\ WF_vars(export_configuration)

TypeOK ==
  /\ pc \in {"main", "create_space", "create_folder", "create_lists",
             "create_custom_fields", "export_configuration"} \cup Terminal
  /\ posts \in 0..54
  /\ run \in 1..MaxRuns
  /\ failures \in 0..MaxFailures

\* ---------------------------------------------------------------- properties
\* Value of nextId when the current execution started
IdBase == (run - 1) * NumResources

\* Identifiers the remote assigned in the current execution
IssuedThisRun == { IdOf[k] : k \in (IdBase + 1)..nextId }

\* Every identifier a configuration holds
RecordedIds(c) ==
  ({c.space_id, c.folder_id} \ {None})
  \cup { c.lists[k].id : k \in DOMAIN c.lists }
  \cup UNION { { c.custom_fields[k][n].id : n \in DOMAIN c.custom_fields[k] } :
               k \in DOMAIN c.custom_fields }

\* No identifier is recorded for the resource of request r
NoIdRecorded(r) ==
  CASE r.kind = "space" -> config.space_id = None
    [] r.kind = "folder" -> config.folder_id = None
    [] r.kind = "list" -> r.key \notin DOMAIN config.lists
    [] r.kind = "field" -> r.name \notin DOMAIN config.custom_fields[r.key]
    [] OTHER -> TRUE

\* The declared drop_down fields of a list
DropDowns ==
  [list_key \in DOMAIN field_sets |->
     { field_sets[list_key][i] :
         i \in { j \in DOMAIN field_sets[list_key] :
                   field_sets[list_key][j].type = "drop_down" } }]

Labels(field) == { field.options[i] : i \in DOMAIN field.options }

C2_NoOutputOnFailure == failed => exports = 0

\* C3 (as stated): after a failed creation request no further request is
\* issued in the same execution.
C3_AbortOnFirstError == [][(failed /\ run' = run) => posts' = posts]_vars

C6_MissingIdIsFailure ==
  /\ (last.status = 200 /\ (~last.truthy \/ last.keyerror)) => NoIdRecorded(last)
  /\ noid => exports = 0

C10_ConfigCheckFirst ==
  API_TOKEN = PLACEHOLDER_TOKEN =>
    /\ ~constructed
    /\ pc \in {"main", "no_token"}
    /\ posts = 0 /\ last = NoRequest /\ nextId = IdBase
    /\ exports = 0 /\ files = NoFiles

C10_Witness == API_TOKEN = PLACEHOLDER_TOKEN /\ pc = "no_token" /\ run = 2

\* The mapping has every declared key: the three lists and, per list, every
\* declared field
FullShape(c) ==
  /\ DOMAIN c.lists = DOMAIN field_sets
  /\ DOMAIN c.custom_fields = DOMAIN field_sets
  /\ \A k \in DOMAIN c.custom_fields :
       DOMAIN c.custom_fields[k] =
         { field_sets[k][i].name : i \in DOMAIN field_sets[k] }

TopLevelDone ==
  /\ config.space_id \in IssuedThisRun
  /\ config.folder_id \in IssuedThisRun
  /\ DOMAIN config.lists = DOMAIN field_sets

\* The last request create_custom_fields issues
IsLastField(r) ==
  LET k == field_set_keys[Len(field_set_keys)]
  IN r.kind = "field" /\ r.key = k
     /\ r.name = field_sets[k][Len(field_sets[k])].name

\* What holds whenever run_setup has returned True
AfterTrue ==
  pc = "done_true" =>
    exports = 1 /\ IsLastField(last) /\ files.written /\ files.config_json = config

\* C12 (as stated): run_setup returns True exactly when the space, the folder
\* and the three lists were created, whatever the field requests gave; when
\* it returned True, export_configuration ran once, after the last field
\* request.
C12_ReturnValue ==
  /\ (constructed /\ pc \in Terminal) => (pc = "done_true" <=> TopLevelDone)
  /\ AfterTrue

\* C12 (amended): run_setup returns True exactly when the space, the folder
\* and the three lists were created and no field request was answered by a
\* non-empty 2xx body without "id" or "type" (reading it raises KeyError and
\* run_setup returns nothing). A field request that failed (no result, or an
\* empty body) never changes the return value. When run_setup returned True,
\* export_configuration ran exactly once, after the last field request; when
\* it returned False or raised, it never ran.
C12_ReturnValueUnlessKeyError ==
  /\ (constructed /\ pc \in Terminal) =>
       /\ pc = "done_true" <=>
            (TopLevelDone /\ ~(last.kind = "field" /\ last.keyerror))
       /\ pc = "crashed" <=> last.keyerror
  /\ AfterTrue
  /\ pc \in {"done_false", "crashed"} => exports = 0 /\ files = NoFiles
  /\ exports <= 1

C12_Witness ==
  /\ pc = "done_true" /\ exports = 1 /\ failed
  /\ "Slack Ticket ID" \notin DOMAIN config.custom_fields["service_issues"]

\* Position of a request's resource in the order run_setup declares them:
\* the space, the folder, the lists, then the fields list by list
ListRank ==
  [k \in DOMAIN field_sets |->
     2 + (CHOOSE i \in DOMAIN lists_config : lists_config[i].key = k)]

FieldBase ==
  [k \in DOMAIN field_sets |->
     LET RECURSIVE Before(_)
         Before(j) == IF field_set_keys[j] = k THEN 0
                      ELSE Len(field_sets[field_set_keys[j]]) + Before(j + 1)
     IN 2 + Len(lists_config) + Before(1)]

FieldRank ==
  [k \in DOMAIN field_sets |->
     [n \in { field_sets[k][i].name : i \in DOMAIN field_sets[k] } |->
        FieldBase[k] + (CHOOSE i \in DOMAIN field_sets[k] : field_sets[k][i].name = n)]]

Rank(r) ==
  CASE r.kind = "space" -> 1
    [] r.kind = "folder" -> 2
    [] r.kind = "list" -> ListRank[r.key]
    [] r.kind = "field" -> FieldRank[r.key][r.name]
    [] OTHER -> 0

\* C13: every execution terminates; each request is one HTTP call for a
\* resource declared later than the one of the request before it, so no
\* resource is requested twice and an execution issues at most
\* 1 + 1 + 3 + 15 + 16 + 18 = 54 calls, one at a time.
C13_BoundedSequential ==
  /\ [](/\ NumResources = 54
        /\ Len(field_sets["service_issues"]) = 15
        /\ Len(field_sets["customer_inquiries"]) = 16
        /\ Len(field_sets["unit_management"]) = 18
        /\ posts <= NumResources
        /\ posts <= Rank(last)
        /\ last.kind # "none" => last.calls = 1)
  /\ [][(run' = run /\ posts' # posts) =>
          (posts' = posts + 1 /\ Rank(last') > Rank(last))]_vars
  /\ (pc \notin Terminal) ~> (pc \in Terminal)

C13_Witness ==
  /\ pc = "done_true" /\ posts = NumResources /\ Rank(last) = NumResources
  /\ failures > 0

\* The <<list key, field name>> pairs config["custom_fields"] has entries for
FieldKeys(c) ==
  UNION { { <<k, n>> : n \in DOMAIN c.custom_fields[k] } :
          k \in DOMAIN c.custom_fields }

\* Request r was answered by a 2xx body that carries the identifier
Succeeded(r) == r.status = 200 /\ r.has_id

\* C14: entries of config["lists"] and config["custom_fields"] appear exactly
\* when the request for that list or field succeeds (none exists before the
\* first request, a successful request adds the entry of its own resource, no
\* other step adds one); an entry is never removed or changed during an
\* execution; every recorded list key and field name is a declared one and
\* holds an identifier assigned in this execution.
C14_RecordedTracksSuccess ==
  /\ [](/\ pc \in {"main", "create_space"} =>
             config.lists = EmptyDict /\ config.custom_fields = EmptyDict
        /\ DOMAIN config.lists \subseteq DOMAIN field_sets
        /\ DOMAIN config.custom_fields \subseteq DOMAIN config.lists
        /\ \A e \in FieldKeys(config) :
             /\ e[2] \in DOMAIN FieldRank[e[1]]
             /\ config.custom_fields[e[1]][e[2]].id \in IssuedThisRun
        /\ \A k \in DOMAIN config.lists : config.lists[k].id \in IssuedThisRun)
  /\ [][run' = run =>
          /\ \A k \in DOMAIN config.lists :
               k \in DOMAIN config'.lists /\ config'.lists[k] = config.lists[k]
          /\ \A e \in FieldKeys(config) :
               /\ e \in FieldKeys(config')
               /\ config'.custom_fields[e[1]][e[2]] = config.custom_fields[e[1]][e[2]]
          /\ DOMAIN config'.lists \ DOMAIN config.lists =
               IF posts' # posts /\ last'.kind = "list" /\ Succeeded(last')
               THEN {last'.key} ELSE {}
          /\ FieldKeys(config') \ FieldKeys(config) =
               IF posts' # posts /\ last'.kind = "field" /\ Succeeded(last')
               THEN {<<last'.key, last'.name>>} ELSE {}]_vars

C14_Witness ==
  /\ last.kind = "field" /\ ~Succeeded(last) /\ last.status = 200
  /\ last.name \notin DOMAIN config.custom_fields[last.key]
  /\ Cardinality(DOMAIN config.custom_fields[last.key]) >= 1
====
